---- MODULE Spec2Model ----
(***************************************************************************)
(* Model of the chat pipeline of src/app.py: the chat_api request handler  *)
(* with its streaming generator, the daily quota counter, new_chat, and    *)
(* the JSON persistence (save_database / load_database) on a small file    *)
(* system.  Requests run in worker threads that interleave at the          *)
(* statement boundaries modelled as separate actions.                      *)
(*                                                                         *)
(* Text is a sequence of one-character strings, so that strip(),           *)
(* truthiness and concatenation are computed rather than assumed.          *)
(***************************************************************************)
EXTENDS Integers, Sequences, FiniteSets, TLC

(***************************************************************************)
(* Bounds of the model.                                                    *)
(***************************************************************************)
MaxTurns == 2       \* chat_api requests started in one behaviour
MaxFrags == 2       \* chunks one upstream stream delivers
MaxNow == 2         \* last clock tick (one tick = one second of wall clock)
TicksPerDay == 2    \* clock ticks that make up one calendar day
MaxFaults == 1      \* process crashes and failed file writes in one behaviour
MaxMsgs == 11       \* messages a chat holds when the process starts
MaxBlank == 2       \* messages with empty content among them
MaxCalls == 6       \* requests to rate-limited endpoints in one behaviour
SecondsPerTick == 30    \* seconds of wall clock that pass at a clock tick

Reqs == {"r1", "r2"}          \* worker threads serving requests
IPs == {"ip1", "ip2"}         \* request.remote_addr
Users == {"admin", "u1"}      \* accounts: the default admin and one signup
ChatIds == {"c1", "c2", "c3", "c4"}   \* chat identifiers; c4 is the next new_chat
NoChat == "none"              \* request form without a chat_id
NoUser == "nobody"

RawPrompts == { <<"p">>, <<" ">> }           \* form field 'prompt'
Files == {"nofile", "image", "badimage"}       \* form field 'file'
FragSet == { <<>>, <<"a">>, <<" ">> }          \* chunk.text of one chunk
ErrTexts == { <<"x">> }                        \* str(e) of an upstream error
TitleTexts == { <<"T">>, <<>> }                \* title_response.text

(***************************************************************************)
(* Text helpers.                                                           *)
(***************************************************************************)
IsSpace(ch) == ch = " "

RECURSIVE LStrip(_)
LStrip(s) == IF s # <<>> /\ IsSpace(Head(s)) THEN LStrip(Tail(s)) ELSE s

RECURSIVE RStrip(_)
RStrip(s) ==
    IF s # <<>> /\ IsSpace(s[Len(s)]) THEN RStrip(SubSeq(s, 1, Len(s) - 1)) ELSE s

\* str.strip()
Strip(s) == RStrip(LStrip(s))

\* the slice that keeps everything
Take_All(s, n) == s

\* s[:n]
Take(s, n) == SubSeq(s, 1, IF Len(s) < n THEN Len(s) ELSE n)

\* str.replace(ch, '')
RECURSIVE RemoveChar(_, _)
RemoveChar(s, ch) ==
    IF s = <<>> THEN <<>>
    ELSE IF Head(s) = ch THEN RemoveChar(Tail(s), ch)
         ELSE <<Head(s)>> \o RemoveChar(Tail(s), ch)

\* ''.join(parts)
RECURSIVE Concat(_)
Concat(parts) == IF parts = <<>> THEN <<>> ELSE Head(parts) \o Concat(Tail(parts))

\* restriction of a function to a subset of its domain
Restrict(f, S) == [x \in S |-> f[x]]

\* f with key k bound to v (dict assignment)
Bind(f, k, v) == [x \in (DOMAIN f) \cup {k} |-> IF x = k THEN v ELSE f[x]]

(***************************************************************************)
(* Clock: datetime.now() read as a date and as a second-resolution stamp.  *)
(***************************************************************************)
DayOf(t) == t \div TicksPerDay

(***************************************************************************)
(* Plans.                                                                  *)
(***************************************************************************)
FreeLimit == 15
UltraLimit == 10000

PLAN_CONFIG ==
    [ free  |-> [message_limit |-> FreeLimit,  can_upload |-> FALSE],
      ultra |-> [message_limit |-> UltraLimit, can_upload |-> TRUE] ]

\* PLAN_CONFIG.get(plan, PLAN_CONFIG['free'])
PlanDetails(plan) ==
    IF plan \in DOMAIN PLAN_CONFIG THEN PLAN_CONFIG[plan] ELSE PLAN_CONFIG["free"]

(***************************************************************************)
(* State.                                                                  *)
(***************************************************************************)
VARIABLES
    DB,         \* the process-wide dictionary: users and chats
    now,        \* wall clock, in ticks
    canon,      \* data/database.json
    tmp,        \* data/database.json.tmp
    backups,    \* data/database_<stamp>.json.bak, keyed by stamp
    req,        \* per worker thread: position and locals of its request
    boot,       \* "up", or "down" / "loaded" while the process restarts
    turns,      \* chat_api requests started so far
    faults,     \* crashes and failed writes so far
    crash,      \* what the last crash interrupted (history variable)
    since,      \* per user: exchanges completed since the counter was last
                \* reset (history variable)
    rate_limit_store,   \* per client address: the times of its admitted requests
    calls       \* requests to rate-limited endpoints so far

vars == <<DB, now, canon, tmp, backups, req, boot, turns, faults, crash, since,
          rate_limit_store, calls>>

(***************************************************************************)
(* Records of the data model.                                              *)
(***************************************************************************)
\* last_message_date=None, and null in a document
NoDate == -1

\* User.__init__ with the fields the pipeline reads; role keeps its default
NewUser(plan, today) ==
    [role |-> "user", plan |-> plan, daily_messages |-> 0,
     last_message_date |-> today]

\* the default admin account of initialize_database_defaults
AdminUser(today) == [NewUser("ultra", today) EXCEPT !.role = "admin"]

UserMsg(prompt) == [sender |-> "user", content |-> prompt]
ModelMsg(text) == [sender |-> "model", content |-> text]

NewChatTitle == <<"N", "e", "w", " ", "C", "h", "a", "t">>

\* the dictionary new_chat stores
NewChatData(uid) ==
    [user_id |-> uid, title |-> NewChatTitle, messages |-> <<>>, is_public |-> FALSE]

\* the module-level value of DB before anything is loaded
EmptyTable == [x \in {} |-> 0]
DefaultDB == [users |-> EmptyTable, chats |-> EmptyTable]

(***************************************************************************)
(* Files.  A file is absent, holds a complete JSON document, holds the     *)
(* truncated beginning of one (partial), or holds bytes of two writers     *)
(* (corrupt).  A file that did not come from save_database may also hold   *)
(* JSON that is not an object (badshape), or an object whose chats are     *)
(* well formed and whose user records carry a key that User.__init__ does  *)
(* not accept (baduser).                                                   *)
(***************************************************************************)
Absent == [kind |-> "absent", data |-> DefaultDB]
Partial == [kind |-> "partial", data |-> DefaultDB]
Corrupt == [kind |-> "corrupt", data |-> DefaultDB]
DocFile(doc) == [kind |-> "doc", data |-> doc]
BadShape == [kind |-> "badshape", data |-> DefaultDB]
BadUser(doc) == [kind |-> "baduser", data |-> doc]

Exists(f) == f.kind # "absent"

\* user_to_dict
user_to_dict(u) ==
    [role |-> u.role, plan |-> u.plan, daily_messages |-> u.daily_messages,
     last_message_date |-> u.last_message_date]

\* the serializable_db that json.dump writes
Serialize(db) ==
    [users |-> [uid \in DOMAIN db.users |-> user_to_dict(db.users[uid])],
     chats |-> db.chats]

\* dict.setdefault(k, dflt) followed by the read of the key
SetDefault(d, k, dflt) == IF k \in DOMAIN d THEN d[k] ELSE dflt

\* the user record that forgets the day's count
from_dict_Fresh(d) ==
    [role |-> d.role, plan |-> d.plan, daily_messages |-> 0,
     last_message_date |-> d.last_message_date]

\* User.from_dict(u_data): missing keys get their defaults, and User.__init__
\* replaces a null date by today's
from_dict(d) ==
    LET date == SetDefault(d, "last_message_date", DayOf(now)) IN
    [role |-> SetDefault(d, "role", "user"),
     plan |-> SetDefault(d, "plan", "free"),
     daily_messages |-> SetDefault(d, "daily_messages", 0),
     last_message_date |-> IF date = NoDate THEN DayOf(now) ELSE date]

\* the assignments load_database makes from a parsed document
Parse(doc) ==
    [users |-> [uid \in DOMAIN doc.users |-> from_dict(doc.users[uid])],
     chats |-> doc.chats]

\* the try block of load_database on one file (lines 172-177 and 186-191):
\* the exception it ends with, and DB after the assignments it made
TryLoad(db, f) ==
    CASE f.kind = "doc" -> [exc |-> "none", db |-> Parse(f.data)]
      [] f.kind \in {"partial", "corrupt"} -> [exc |-> "JSONDecodeError", db |-> db]
      [] f.kind = "badshape" -> [exc |-> "AttributeError", db |-> db]
      [] f.kind = "baduser" ->
            [exc |-> "TypeError", db |-> [db EXCEPT !.chats = f.data.chats]]

\* the exceptions the first try block of load_database catches (line 178)
CaughtByLoad == {"JSONDecodeError", "FileNotFoundError", "TypeError"}

KeepBackups == 5

\* the stamps of the backups that survive the clean-up: the KeepBackups newest
Newest(stamps) ==
    {s \in stamps : Cardinality({t \in stamps : t > s}) < KeepBackups}

(***************************************************************************)
(* Worker threads.  pc is the statement the thread executes next; the      *)
(* other fields are the locals of the handler and of save_database, plus   *)
(* what the thread observed when its request began (m0, d0).               *)
(***************************************************************************)
IdleReq ==
    [pc |-> "idle", ret |-> "done", user |-> NoUser, chat |-> NoChat,
     prompt |-> <<>>, file |-> "nofile", status |-> 0, outcome |-> "none",
     full |-> <<>>, sent |-> <<>>, nchunks |-> 0, cancelled |-> FALSE,
     rd |-> 0, d0 |-> 0, day |-> 0, m0 |-> <<>>, overlap |-> FALSE,
     didReset |-> FALSE,
     history |-> <<>>, tgen |-> "none", cause |-> <<>>, target |-> NoChat,
     ip |-> "none", limit |-> 0, op |-> "none", title |-> <<>>,
     bdef |-> FALSE, bfile |-> 0, fd |-> "none", saved |-> "none"]

SavePcs == {"sv_backup", "sv_open", "sv_dump", "sv_replace", "sv_except"}

Set(r, rec) == [req EXCEPT ![r] = rec]

\* call save_database() and continue at ret when it returns
CallSave(rec, ret) ==
    [rec EXCEPT !.pc = "sv_backup", !.ret = ret, !.bdef = FALSE, !.fd = "none",
                !.saved = "none"]

\* return from save_database(); how it ended is kept for observation:
\* "ok" after os.replace, "failed" after the except branch
SaveReturn(rec) ==
    [rec EXCEPT !.pc = rec.ret, !.fd = "none", !.bdef = FALSE, !.bfile = 0,
                !.saved = IF rec.pc = "sv_except" THEN "failed" ELSE "ok"]

\* a path now names another file: the threads that hold the old one open
\* keep writing to it
Refd(rq, move) ==
    [x \in Reqs |->
        IF rq[x].fd \in DOMAIN move THEN [rq[x] EXCEPT !.fd = move[rq[x].fd]]
        ELSE rq[x]]

\* The initial state: both accounts exist, u1 has used all but one message of
\* the day, and three chats have been created and are still empty.
InitDaily == FreeLimit - 1
InitOwner == [c1 |-> "u1", c2 |-> "admin", c3 |-> "admin"]
InitChats == DOMAIN InitOwner

Init ==
    /\ DB = [users |-> [u \in Users |->
                          IF u = "admin" THEN AdminUser(DayOf(0))
                          ELSE [NewUser("free", DayOf(0))
                                  EXCEPT !.daily_messages = InitDaily]],
             chats |-> [c \in InitChats |-> NewChatData(InitOwner[c])]]
    /\ now = 0
    /\ canon = DocFile(Serialize(DB))
    /\ tmp = Absent
    /\ backups = EmptyTable
    /\ req = [r \in Reqs |-> IdleReq]
    /\ boot = "up"
    /\ turns = 0
    /\ faults = 0
    /\ crash = [inSave |-> FALSE, committed |-> Serialize(DB), mem |-> DB]
    /\ since = [u \in Users |-> DB.users[u].daily_messages]
    /\ rate_limit_store = EmptyTable
    /\ calls = 0

(***************************************************************************)
(* save_database, one action per file-system call.                         *)
(***************************************************************************)
\* the rotation that forgets the file it moves
RotateBackups_Drop(bk, file, stamp) == bk

\* os.rename(DATABASE_FILE, backup_file) and the clean-up of old backups
RotateBackups(bk, file, stamp) ==
    LET all == Bind(bk, stamp, file) IN Restrict(all, Newest(DOMAIN all))

\* lines 130-140: rotate the canonical file into a backup named by the clock
SaveBackup(r) ==
    /\ boot = "up" /\ req[r].pc = "sv_backup"
    /\ IF Exists(canon)
       THEN /\ backups' = RotateBackups(backups, canon, now)
            /\ canon' = Absent
            /\ req' = Refd(Set(r, [req[r] EXCEPT !.pc = "sv_open", !.bdef = TRUE,
                                                 !.bfile = now]),
                           [canon |-> "lost"])
       ELSE /\ req' = Set(r, [req[r] EXCEPT !.pc = "sv_open"])
            /\ UNCHANGED <<backups, canon>>
    /\ UNCHANGED <<DB, now, tmp, boot, turns, faults, crash, since, rate_limit_store, calls>>

\* line 145: open(temp_file, 'w') creates or truncates the temp file
SaveOpen(r) ==
    /\ boot = "up" /\ req[r].pc = "sv_open"
    /\ tmp' = Partial
    /\ req' = Set(r, [req[r] EXCEPT !.pc = "sv_dump", !.fd = "tmp"])
    /\ UNCHANGED <<DB, now, canon, backups, boot, turns, faults, crash, since, rate_limit_store, calls>>

\* what a completed json.dump leaves in the file the thread holds open: its
\* document, or a mixture when another thread writes the same file
Written(r, doc) ==
    {DocFile(doc)} \cup
    (IF \E x \in Reqs \ {r} : req[x].fd = req[r].fd THEN {Corrupt} ELSE {})

\* lines 146-152: serialize DB and write it through the open handle
SaveDump(r) ==
    /\ boot = "up" /\ req[r].pc = "sv_dump"
    /\ \E f \in Written(r, Serialize(DB)) :
          /\ tmp' = IF req[r].fd = "tmp" THEN f ELSE tmp
          /\ canon' = IF req[r].fd = "canon" THEN f ELSE canon
    /\ req' = Set(r, [req[r] EXCEPT !.pc = "sv_replace", !.fd = "none"])
    /\ UNCHANGED <<DB, now, backups, boot, turns, faults, crash, since, rate_limit_store, calls>>

\* lines 145-152 raising (disk full, I/O error): the temp file stays truncated
SaveDumpFails(r) ==
    /\ boot = "up" /\ req[r].pc = "sv_dump"
    /\ faults < MaxFaults
    /\ faults' = faults + 1
    /\ req' = Set(r, [req[r] EXCEPT !.pc = "sv_except", !.fd = "none"])
    /\ UNCHANGED <<DB, now, canon, tmp, backups, boot, turns, crash, since, rate_limit_store, calls>>

\* line 153: os.replace(temp_file, DATABASE_FILE)
SaveReplace(r) ==
    /\ boot = "up" /\ req[r].pc = "sv_replace"
    /\ IF Exists(tmp)
       THEN /\ canon' = tmp
            /\ tmp' = Absent
            /\ req' = Refd(Set(r, SaveReturn(req[r])),
                           [tmp |-> "canon", canon |-> "lost"])
            /\ crash' = IF tmp.kind = "doc"
                        THEN [crash EXCEPT !.committed = tmp.data] ELSE crash
       ELSE /\ req' = Set(r, [req[r] EXCEPT !.pc = "sv_except"])
            /\ UNCHANGED <<canon, tmp, crash>>
    /\ UNCHANGED <<DB, now, backups, boot, turns, faults, since, rate_limit_store, calls>>

\* line 153 raising: os.replace fails, the written temp file stays
SaveReplaceFails(r) ==
    /\ boot = "up" /\ req[r].pc = "sv_replace"
    /\ faults < MaxFaults
    /\ faults' = faults + 1
    /\ req' = Set(r, [req[r] EXCEPT !.pc = "sv_except"])
    /\ UNCHANGED <<DB, now, canon, tmp, backups, boot, turns, crash, since, rate_limit_store, calls>>

\* lines 154-161: put the backup back, remove the temp file
SaveExcept(r) ==
    /\ boot = "up" /\ req[r].pc = "sv_except"
    /\ LET restore == req[r].bdef /\ req[r].bfile \in DOMAIN backups IN
       /\ canon' = IF restore THEN backups[req[r].bfile] ELSE canon
       /\ backups' = IF restore
                     THEN Restrict(backups, (DOMAIN backups) \ {req[r].bfile})
                     ELSE backups
       /\ tmp' = Absent
       /\ req' = Refd(Set(r, SaveReturn(req[r])),
                      IF restore THEN [tmp |-> "lost", canon |-> "lost"]
                      ELSE [tmp |-> "lost"])
    /\ UNCHANGED <<DB, now, boot, turns, faults, crash, since, rate_limit_store, calls>>

(***************************************************************************)
(* chat_api.                                                               *)
(***************************************************************************)
\* the response of a handler that returns before streaming
Reject(rec, code) == [rec EXCEPT !.pc = "done", !.status = code, !.outcome = "rejected"]

\* threads other than r that are inside a request on chat cid
Others(r, cid) == {x \in Reqs \ {r} : req[x].pc # "idle" /\ req[x].chat = cid}

\* the reset that does not record the day
ResetDaily_KeepDate(u, today) == [u EXCEPT !.daily_messages = 0]

\* check_and_reset_daily_limit: the user record after the day-rollover reset
ResetDaily(u, today) == [u EXCEPT !.last_message_date = today, !.daily_messages = 0]

\* the ownership test that accepts every existing chat
Owns_Any(uid, cid) == cid \in DOMAIN DB.chats

\* chat and chat.get('user_id') == current_user.id
Owns(uid, cid) == cid \in DOMAIN DB.chats /\ DB.chats[cid].user_id = uid

\* lines 2051-2062: validation, ownership check, check_and_reset_daily_limit
ChatApi(r, uid, cid, raw, file) ==
    /\ boot = "up" /\ req[r].pc = "idle"
    /\ turns < MaxTurns
    /\ uid \in DOMAIN DB.users
    /\ turns' = turns + 1
    /\ LET rec == [req[r] EXCEPT !.user = uid, !.target = cid, !.op = "chat",
                                  !.prompt = Strip(raw), !.file = file,
                                  !.day = DayOf(now),
                                  !.d0 = DB.users[uid].daily_messages] IN
       IF cid = NoChat
       THEN /\ req' = Set(r, Reject(rec, 400))
            /\ UNCHANGED <<DB, since>>
       ELSE IF ~Owns(uid, cid)
       THEN /\ req' = Set(r, Reject(rec, 404))
            /\ UNCHANGED <<DB, since>>
       ELSE LET bound == [rec EXCEPT !.chat = cid, !.m0 = DB.chats[cid].messages,
                                     !.overlap = Others(r, cid) # {}]
                marked == [x \in Reqs |->
                             IF x \in Others(r, cid)
                             THEN [req[x] EXCEPT !.overlap = TRUE] ELSE req[x]]
            IN IF DB.users[uid].last_message_date # DayOf(now)
               THEN /\ DB' = [DB EXCEPT !.users[uid] = ResetDaily(@, DayOf(now))]
                    /\ since' = [since EXCEPT ![uid] = 0]
                    /\ req' = [marked EXCEPT
                                 ![r] = CallSave([bound EXCEPT !.didReset = TRUE, !.d0 = 0], "quota")]
               ELSE /\ UNCHANGED <<DB, since>>
                    /\ req' = [marked EXCEPT ![r] = [bound EXCEPT !.pc = "quota"]]
    /\ UNCHANGED <<now, canon, tmp, backups, boot, faults, crash, rate_limit_store, calls>>

\* the quota test with the comparison off by one
QuotaExceeded_OffByOne(u) == u.daily_messages > PlanDetails(u.plan).message_limit

\* line 2064: the quota test
QuotaExceeded(u) == u.daily_messages >= PlanDetails(u.plan).message_limit

HistoryWindow == 10

\* the first n elements where the last n are meant
LastN_First(s, n) == Take(s, n)

\* s[-n:]
LastN(s, n) == SubSeq(s, IF Len(s) > n THEN Len(s) - n + 1 ELSE 1, Len(s))

\* one entry of the history handed to start_chat
HistoryEntry(msg) ==
    [role |-> IF msg.sender = "user" THEN "user" ELSE "model", text |-> msg.content]

\* [entry(msg) for msg in msgs if msg.get('content')]
RECURSIVE NonEmptyEntries(_)
NonEmptyEntries(msgs) ==
    IF msgs = <<>> THEN <<>>
    ELSE (IF Head(msgs).content # <<>> THEN <<HistoryEntry(Head(msgs))>> ELSE <<>>)
         \o NonEmptyEntries(Tail(msgs))

\* line 2068: the history of the turn
BuildHistory(msgs) == NonEmptyEntries(LastN(msgs, HistoryWindow))

\* lines 2063-2088: quota test, history, upload permission, image decoding,
\* empty input (the history of a request that is refused here is dropped)
Quota(r) ==
    /\ boot = "up" /\ req[r].pc = "quota"
    /\ LET u == DB.users[req[r].user]
           rec == [req[r] EXCEPT !.d0 = u.daily_messages] IN
       req' = Set(r,
           IF QuotaExceeded(u) THEN Reject(rec, 429)
           ELSE IF rec.file # "nofile" /\ ~PlanDetails(u.plan).can_upload
                THEN Reject(rec, 403)
           ELSE IF rec.file = "badimage" THEN Reject(rec, 400)
           ELSE IF rec.prompt = <<>> /\ rec.file = "nofile" THEN Reject(rec, 400)
           ELSE [rec EXCEPT !.pc = "append",
                            !.history = BuildHistory(DB.chats[rec.chat].messages)])
    /\ UNCHANGED <<DB, now, canon, tmp, backups, boot, turns, faults, crash, since, rate_limit_store, calls>>

\* line 2090, and the read half of line 2091
AppendUser(r) ==
    /\ boot = "up" /\ req[r].pc = "append"
    /\ DB' = [DB EXCEPT !.chats[req[r].chat].messages = Append(@, UserMsg(req[r].prompt))]
    /\ req' = Set(r, [req[r] EXCEPT !.pc = "incr",
                                    !.rd = DB.users[req[r].user].daily_messages])
    /\ UNCHANGED <<now, canon, tmp, backups, boot, turns, faults, crash, since, rate_limit_store, calls>>

\* the value that counts the message twice
Incremented_Twice(n) == n + 2

\* the value line 2091 stores, from the value it read
Incremented(n) == n + 1

\* the write half of line 2091: current_user.daily_messages += 1
IncrWrite(r) ==
    /\ boot = "up" /\ req[r].pc = "incr"
    /\ DB' = [DB EXCEPT !.users[req[r].user].daily_messages = Incremented(req[r].rd)]
    /\ req' = Set(r, [req[r] EXCEPT !.pc = "dispatch", !.rd = 0])
    /\ UNCHANGED <<now, canon, tmp, backups, boot, turns, faults, crash, since, rate_limit_store, calls>>

\* lines 2094-2095 and 2121: the model session is set up, the response begins
Dispatch(r) ==
    /\ boot = "up" /\ req[r].pc = "dispatch"
    /\ req' = Set(r, [req[r] EXCEPT !.pc = "stream", !.status = 200, !.history = <<>>])
    /\ UNCHANGED <<DB, now, canon, tmp, backups, boot, turns, faults, crash, since, rate_limit_store, calls>>

\* lines 2094-2095 raising: the handler ends with an uncaught exception
DispatchFails(r) ==
    /\ boot = "up" /\ req[r].pc = "dispatch"
    /\ req' = Set(r, [req[r] EXCEPT !.pc = "done", !.status = 500,
                                    !.outcome = "setup_error", !.history = <<>>])
    /\ UNCHANGED <<DB, now, canon, tmp, backups, boot, turns, faults, crash, since, rate_limit_store, calls>>

\* the client aborts the fetch (AbortController); the server learns of it
\* when it next writes to the connection
Cancel(r) ==
    /\ boot = "up" /\ req[r].pc = "stream" /\ ~req[r].cancelled
    /\ req' = Set(r, [req[r] EXCEPT !.cancelled = TRUE])
    /\ UNCHANGED <<DB, now, canon, tmp, backups, boot, turns, faults, crash, since, rate_limit_store, calls>>

\* the running total with the chunk put in front
Accumulate_Prepend(full, text) == text \o full

\* line 2103: the running total after a chunk
Accumulate(full, text) == full \o text

\* a yield of the generator: the value is written to the connection, or the
\* write fails on an aborted connection and the server closes the generator
\* (GeneratorExit at the yield: nothing after it runs)
Yield(rec, value) ==
    IF rec.cancelled THEN [rec EXCEPT !.pc = "done", !.outcome = "closed", !.nchunks = 0]
    ELSE [rec EXCEPT !.sent = Append(@, value)]

\* lines 2101-2104: one chunk of the upstream stream
StreamChunk(r, text) ==
    /\ boot = "up" /\ req[r].pc = "stream"
    /\ req[r].nchunks < MaxFrags
    /\ LET rec == [req[r] EXCEPT !.nchunks = @ + 1] IN
       req' = Set(r, IF text # <<>>
                     THEN Yield([rec EXCEPT !.full = Accumulate(@, text)], text)
                     ELSE rec)
    /\ UNCHANGED <<DB, now, canon, tmp, backups, boot, turns, faults, crash, since, rate_limit_store, calls>>

\* json.dumps({"error": str(e)}), abbreviated to the braces around the text
ErrorEvent(e) == <<"{">> \o e \o <<"}">>

\* lines 2105-2108: the upstream stream raises
StreamRaise(r, e) ==
    /\ boot = "up" /\ req[r].pc = "stream"
    /\ req' = Set(r, [Yield(req[r], ErrorEvent(e)) EXCEPT
                        !.pc = "done", !.nchunks = 0, !.cause = e,
                        !.outcome = IF req[r].cancelled THEN "closed" ELSE "stream_error"])
    /\ UNCHANGED <<DB, now, canon, tmp, backups, boot, turns, faults, crash, since, rate_limit_store, calls>>

\* line 2110
AppendAssistant(msgs, text) == Append(msgs, ModelMsg(text))

TitleOutcomes == {[raised |-> FALSE, text |-> t] : t \in TitleTexts}
                 \cup {[raised |-> TRUE, text |-> <<>>]}

TitlePrefix == 40
Ellipsis == <<".", ".", ".">>

\* line 2111: the chat gets a title after this exchange
TitleWanted(chat, prompt) == Len(chat.messages) <= 2 /\ prompt # <<>>

\* lines 2111-2118: the title after the first exchange
TitleAfter(chat, prompt, t) ==
    IF TitleWanted(chat, prompt)
    THEN IF t.raised THEN Take(prompt, TitlePrefix) \o Ellipsis
         ELSE RemoveChar(Strip(t.text), "\"")
    ELSE chat.title

\* how the title generation of lines 2112-2118 went (kept for observation)
TitleGen(chat, prompt, t) ==
    IF ~TitleWanted(chat, prompt) THEN "skipped"
    ELSE IF t.raised THEN "raised" ELSE "returned"

\* lines 2110-2119: the stream ended; append the reply, title the chat, save
Finalize(r, t) ==
    /\ boot = "up" /\ req[r].pc = "stream"
    /\ LET c == req[r].chat
           appended == [DB.chats[c] EXCEPT !.messages = AppendAssistant(@, req[r].full)]
       IN DB' = [DB EXCEPT !.chats[c] =
                    [appended EXCEPT !.title = TitleAfter(appended, req[r].prompt, t)]]
    /\ req' = Set(r, CallSave([req[r] EXCEPT
                                 !.outcome = "ok", !.nchunks = 0,
                                 !.tgen = TitleGen(
                                     [DB.chats[req[r].chat] EXCEPT
                                        !.messages = AppendAssistant(@, req[r].full)],
                                     req[r].prompt, t)], "done"))
    /\ since' = [since EXCEPT ![req[r].user] = @ + 1]
    /\ UNCHANGED <<now, canon, tmp, backups, boot, turns, faults, crash, rate_limit_store, calls>>

\* the thread is free for the next request
Recycle(r) ==
    /\ boot = "up" /\ req[r].pc = "done"
    /\ req' = Set(r, IdleReq)
    /\ UNCHANGED <<DB, now, canon, tmp, backups, boot, turns, faults, crash, since, rate_limit_store, calls>>

(***************************************************************************)
(* new_chat.                                                               *)
(***************************************************************************)
ChatOrder == <<"c1", "c2", "c3", "c4">>

\* the identifier of the next chat: chat_<user>_<timestamp> is fresh
FreshChat ==
    LET free == {i \in DOMAIN ChatOrder : ChatOrder[i] \notin DOMAIN DB.chats}
    IN ChatOrder[CHOOSE i \in free : \A j \in free : i <= j]

\* lines 2125-2134
NewChat(r, uid) ==
    /\ boot = "up" /\ req[r].pc = "idle"
    /\ uid \in DOMAIN DB.users
    /\ ChatIds \ DOMAIN DB.chats # {}
    /\ DB' = [DB EXCEPT !.chats = Bind(@, FreshChat, NewChatData(uid))]
    /\ req' = Set(r, CallSave([req[r] EXCEPT !.user = uid, !.status = 200,
                                             !.outcome = "created"], "done"))
    /\ UNCHANGED <<now, canon, tmp, backups, boot, turns, faults, crash, since, rate_limit_store, calls>>

(***************************************************************************)
(* rate_limited: the decorator of the login, signup and chat endpoints.    *)
(* One store serves every decorated endpoint; each endpoint compares the   *)
(* length of the client's list with its own max_attempts.  (The chat       *)
(* requests of the other specifications are requests the decorator has     *)
(* admitted: they are fewer than max_attempts.)                            *)
(***************************************************************************)
RATE_LIMIT_WINDOW == 60
DefaultMaxAttempts == 5
ChatMaxAttempts == 20
MaxAttempts == {DefaultMaxAttempts, ChatMaxAttempts}

\* time.time() in seconds
Seconds(t) == t * SecondsPerTick

\* rate_limit_store.get(ip, [])
Attempts(ip) == SetDefault(rate_limit_store, ip, <<>>)

\* [t for t in times if clock - t < RATE_LIMIT_WINDOW]
RECURSIVE Recent(_, _)
Recent(times, clock) ==
    IF times = <<>> THEN <<>>
    ELSE (IF clock - Head(times) < RATE_LIMIT_WINDOW THEN <<Head(times)>> ELSE <<>>)
         \o Recent(Tail(times), clock)

\* line 332: len(rate_limit_store.get(ip, [])) >= max_attempts
LimitReached(n, m) == n >= m

\* lines 329-333: the list of the client is pruned and stored, and tested
RateCheck(r, ip, m) ==
    /\ boot = "up" /\ req[r].pc = "idle"
    /\ calls < MaxCalls
    /\ calls' = calls + 1
    /\ LET kept == Recent(Attempts(ip), Seconds(now)) IN
       /\ rate_limit_store' = Bind(rate_limit_store, ip, kept)
       /\ req' = Set(r, IF LimitReached(Len(kept), m)
                        THEN [req[r] EXCEPT !.pc = "done", !.status = 429,
                                            !.outcome = "rate_limited",
                                            !.ip = ip, !.limit = m]
                        ELSE [req[r] EXCEPT !.pc = "rl_append", !.ip = ip, !.limit = m,
                                            !.day = now])
    /\ UNCHANGED <<DB, now, canon, tmp, backups, boot, turns, faults, crash, since>>

\* line 334: rate_limit_store.setdefault(ip, []).append(now), with the time
\* read at line 330
RateAppend(r) ==
    /\ boot = "up" /\ req[r].pc = "rl_append"
    /\ rate_limit_store' =
          Bind(rate_limit_store, req[r].ip,
               Append(Attempts(req[r].ip), Seconds(req[r].day)))
    /\ req' = Set(r, [req[r] EXCEPT !.pc = "handler", !.day = 0])
    /\ UNCHANGED <<DB, now, canon, tmp, backups, boot, turns, faults, crash, since,
                   calls>>

\* line 335: return f(*args, **kwargs), the decorated handler runs
RunHandler(r) ==
    /\ boot = "up" /\ req[r].pc = "handler"
    /\ req' = Set(r, [req[r] EXCEPT !.pc = "done", !.status = 200, !.outcome = "ran"])
    /\ UNCHANGED <<DB, now, canon, tmp, backups, boot, turns, faults, crash, since,
                   rate_limit_store, calls>>

(***************************************************************************)
(* rename_chat, delete_chat, share_chat.                                   *)
(***************************************************************************)
RenameTitles == { <<"R">>, <<" ">> }      \* JSON field 'title'

\* the request of a chat-management handler, before its checks
Manage(r, what, uid, cid) ==
    [req[r] EXCEPT !.user = uid, !.target = cid, !.op = what]

\* the handler changed the chat and calls save_database before it answers
Managed(rec, what) ==
    CallSave([rec EXCEPT !.status = 200, !.outcome = what], "done")

\* lines 2141-2150
RenameChat(r, uid, cid, raw) ==
    /\ boot = "up" /\ req[r].pc = "idle"
    /\ uid \in DOMAIN DB.users
    /\ LET new_title == Strip(raw)
           rec == [Manage(r, "rename", uid, cid) EXCEPT !.title = new_title] IN
       IF cid = NoChat \/ new_title = <<>>
       THEN /\ req' = Set(r, Reject(rec, 400))
            /\ DB' = DB
       ELSE IF Owns(uid, cid)
       THEN /\ DB' = [DB EXCEPT !.chats[cid].title = new_title]
            /\ req' = Set(r, Managed(rec, "renamed"))
       ELSE /\ req' = Set(r, Reject(rec, 404))
            /\ DB' = DB
    /\ UNCHANGED <<now, canon, tmp, backups, boot, turns, faults, crash, since, rate_limit_store, calls>>

\* lines 2154-2161
DeleteChat(r, uid, cid) ==
    /\ boot = "up" /\ req[r].pc = "idle"
    /\ uid \in DOMAIN DB.users
    /\ IF Owns(uid, cid)
       THEN /\ DB' = [DB EXCEPT !.chats = Restrict(@, (DOMAIN @) \ {cid})]
            /\ req' = Set(r, Managed(Manage(r, "delete", uid, cid), "deleted"))
       ELSE /\ req' = Set(r, Reject(Manage(r, "delete", uid, cid), 404))
            /\ DB' = DB
    /\ UNCHANGED <<now, canon, tmp, backups, boot, turns, faults, crash, since, rate_limit_store, calls>>

\* lines 2165-2172
ShareChat(r, uid, cid) ==
    /\ boot = "up" /\ req[r].pc = "idle"
    /\ uid \in DOMAIN DB.users
    /\ IF Owns(uid, cid)
       THEN /\ DB' = [DB EXCEPT !.chats[cid].is_public = TRUE]
            /\ req' = Set(r, Managed(Manage(r, "share", uid, cid), "shared"))
       ELSE /\ req' = Set(r, Reject(Manage(r, "share", uid, cid), 404))
            /\ DB' = DB
    /\ UNCHANGED <<now, canon, tmp, backups, boot, turns, faults, crash, since, rate_limit_store, calls>>

(***************************************************************************)
(* Environment: the clock, and the process stopping and starting again.    *)
(***************************************************************************)
Tick ==
    /\ now < MaxNow
    /\ now' = now + 1
    /\ UNCHANGED <<DB, canon, tmp, backups, req, boot, turns, faults, crash, since, rate_limit_store, calls>>

\* the process stops: memory and threads are gone, the files stay
Crash ==
    /\ boot = "up"
    /\ faults < MaxFaults
    /\ faults' = faults + 1
    /\ boot' = "down"
    /\ crash' = [crash EXCEPT !.inSave = \E r \in Reqs : req[r].pc \in SavePcs,
                              !.mem = DB]
    /\ DB' = DefaultDB
    /\ req' = [r \in Reqs |-> IdleReq]
    /\ UNCHANGED <<now, canon, tmp, backups, turns, since, rate_limit_store, calls>>

\* the newest backup: sorted(..., reverse=True)[0]
NewestStamp(bk) == CHOOSE s \in DOMAIN bk : \A t \in DOMAIN bk : t <= s

\* load_database, lines 163-199, run at import.  An exception that leaves
\* load_database ends the import: the process does not start ("failed").
Load ==
    /\ boot = "down"
    /\ IF ~Exists(canon)
       THEN /\ boot' = "loaded"
            /\ UNCHANGED <<DB, canon, backups>>
       ELSE LET first == TryLoad(DB, canon) IN
            IF first.exc = "none"
            THEN /\ boot' = "loaded"
                 /\ DB' = first.db
                 /\ UNCHANGED <<canon, backups>>
            ELSE IF first.exc \notin CaughtByLoad
            THEN /\ boot' = "failed"
                 /\ DB' = first.db
                 /\ UNCHANGED <<canon, backups>>
            ELSE IF DOMAIN backups = {}
            THEN /\ boot' = "loaded"
                 /\ DB' = first.db
                 /\ UNCHANGED <<canon, backups>>
            ELSE LET s == NewestStamp(backups)
                     second == TryLoad(first.db, backups[s]) IN
                 /\ boot' = "loaded"
                 /\ DB' = second.db
                 /\ IF second.exc = "none"
                    THEN /\ canon' = backups[s]
                         /\ backups' = Restrict(backups, (DOMAIN backups) \ {s})
                    ELSE UNCHANGED <<canon, backups>>
    /\ UNCHANGED <<now, tmp, req, turns, faults, crash, since, rate_limit_store, calls>>

\* initialize_database_defaults, lines 276-287, run at import after the load;
\* no request is served yet, so its save_database runs alone
InitDefaults ==
    /\ boot = "loaded"
    /\ boot' = "up"
    /\ IF "admin" \in DOMAIN DB.users
       THEN UNCHANGED <<DB, canon, tmp, backups, crash>>
       ELSE /\ DB' = [DB EXCEPT !.users = Bind(@, "admin", AdminUser(DayOf(now)))]
            /\ backups' = IF Exists(canon) THEN RotateBackups(backups, canon, now)
                          ELSE backups
            /\ canon' = DocFile(Serialize(DB'))
            /\ tmp' = Absent
            /\ crash' = [crash EXCEPT !.committed = Serialize(DB')]
    /\ UNCHANGED <<now, req, turns, faults, since, rate_limit_store, calls>>

(***************************************************************************)
(* Specifications.  All of them run the same handlers; they differ in the  *)
(* environment: how many worker threads serve requests, which inputs the   *)
(* requests carry, and whether the clock advances and the process fails.   *)
(***************************************************************************)
\* the steps of a chat turn of thread r that the handler takes by itself
Turn(r, frags, titles) ==
    \/ Quota(r)
    \/ AppendUser(r)
    \/ IncrWrite(r)
    \/ Dispatch(r)
    \/ \E text \in frags : StreamChunk(r, text)
    \/ \E t \in titles : Finalize(r, t)
    \/ Recycle(r)

\* the steps of save_database when no call fails
Save(r) ==
    \/ SaveBackup(r)
    \/ SaveOpen(r)
    \/ SaveDump(r)
    \/ SaveReplace(r)

\* Spec: one worker thread serving the chat of the admin account, with every
\* input of chat_api (also from the other account), upstream failures and
\* cancellation by the client.
Next ==
    \/ \E uid \in Users : \E cid \in {"c3", NoChat} :
         \E raw \in RawPrompts : \E file \in Files : ChatApi("r1", uid, cid, raw, file)
    \/ Turn("r1", FragSet, TitleOutcomes)
    \/ Save("r1")
    \/ DispatchFails("r1")
    \/ \E e \in ErrTexts : StreamRaise("r1", e)
    \/ Cancel("r1")

Spec == Init /\ [][Next]_vars

\* SpecQuota: one worker thread and one user sending plain prompts while the
\* clock advances over the day boundary.
NextQuota ==
    \/ \E file \in {"nofile", "image"} : ChatApi("r1", "u1", "c1", <<"p">>, file)
    \/ Turn("r1", {<<"a">>}, {[raised |-> FALSE, text |-> <<"T">>]})
    \/ Save("r1")
    \/ Tick

SpecQuota == Init /\ [][NextQuota]_vars

\* SpecConc: two worker threads serving the two chats of one account,
\* interleaved at every step.
NextConc ==
    \/ \E r \in Reqs : \E cid \in {"c2", "c3"} :
         ChatApi(r, "admin", cid, <<"p">>, "nofile")
    \/ \E r \in Reqs : Turn(r, {<<"a">>}, {[raised |-> FALSE, text |-> <<"T">>]})
    \/ \E r \in Reqs : Save(r)
    \/ \E r \in Reqs : SaveExcept(r)

SpecConc == Init /\ [][NextConc]_vars

\* SpecStore: one worker thread creating chats and sending prompts while
\* writes fail, the process stops and starts again, and the clock advances.
NextStore ==
    \/ \E uid \in Users : NewChat("r1", uid)
    \/ ChatApi("r1", "u1", "c1", <<"p">>, "nofile")
    \/ Turn("r1", {<<"a">>}, {[raised |-> FALSE, text |-> <<"T">>]})
    \/ Save("r1")
    \/ SaveDumpFails("r1")
    \/ SaveReplaceFails("r1")
    \/ SaveExcept("r1")
    \/ Tick
    \/ Crash
    \/ Load
    \/ InitDefaults

SpecStore == Init /\ [][NextStore]_vars

\* SpecStream: one worker thread streaming replies of an upstream that may
\* raise at any point and whose text may itself be the JSON of an error.
NextStream ==
    \/ ChatApi("r1", "admin", "c3", <<"p">>, "nofile")
    \/ Turn("r1", {<<"a">>} \cup {ErrorEvent(e) : e \in ErrTexts},
              {[raised |-> FALSE, text |-> <<"T">>]})
    \/ Save("r1")
    \/ \E e \in ErrTexts : StreamRaise("r1", e)

SpecStream == Init /\ [][NextStream]_vars

\* SpecHistory: one worker thread sending prompts to a chat that already
\* holds up to MaxMsgs messages, alternately of the user and of the model,
\* some of them with empty content (a prompt-less upload, an empty reply).
Letters == <<"a", "b", "c">>

SeedMessage(i, blank) ==
    [sender |-> IF i % 2 = 1 THEN "user" ELSE "model",
     content |-> IF i \in blank THEN <<>> ELSE <<Letters[(i % 3) + 1]>>]

SeedLists ==
    {[i \in 1..n |-> SeedMessage(i, blank)] :
        n \in 0..MaxMsgs,
        blank \in {B \in SUBSET (1..MaxMsgs) : Cardinality(B) <= MaxBlank}}

InitHistory ==
    /\ \E seed \in SeedLists :
          DB = [users |-> [u \in Users |->
                             IF u = "admin" THEN AdminUser(DayOf(0))
                             ELSE NewUser("free", DayOf(0))],
                chats |-> [c \in InitChats |->
                             [NewChatData(InitOwner[c]) EXCEPT
                                !.messages = IF c = "c2" THEN seed ELSE <<>>]]]
    /\ now = 0
    /\ canon = DocFile(Serialize(DB))
    /\ tmp = Absent
    /\ backups = EmptyTable
    /\ req = [r \in Reqs |-> IdleReq]
    /\ boot = "up"
    /\ turns = 0
    /\ faults = 0
    /\ crash = [inSave |-> FALSE, committed |-> Serialize(DB), mem |-> DB]
    /\ since = [u \in Users |-> DB.users[u].daily_messages]
    /\ rate_limit_store = EmptyTable
    /\ calls = 0

NextHistory ==
    \/ ChatApi("r1", "admin", "c2", <<"p">>, "nofile")
    \/ Turn("r1", {<<"a">>}, {[raised |-> FALSE, text |-> <<"T">>]})
    \/ Save("r1")

SpecHistory == InitHistory /\ [][NextHistory]_vars

\* SpecTitle: one worker thread serving first and later exchanges of a chat
\* with short, long and empty prompts, with and without an image, and every
\* outcome of the title generation.
LongPrompt == [i \in 1..(TitlePrefix + 1) |-> IF i <= TitlePrefix THEN "p" ELSE "q"]

NextTitle ==
    \/ \E raw \in {<<"p">>, LongPrompt, <<" ">>} : \E file \in {"nofile", "image"} :
         ChatApi("r1", "admin", "c3", raw, file)
    \/ Turn("r1", {<<"a">>}, TitleOutcomes)
    \/ Save("r1")

SpecTitle == Init /\ [][NextTitle]_vars

\* SpecLive: one worker thread, scheduled fairly: a step the handler can
\* take by itself is eventually taken.  The steps that wait for the upstream
\* (the next chunk, the end of the stream, an exception) are taken when the
\* upstream acts; the handler sets no deadline for them.
HandlerStep(r) ==
    \/ Quota(r)
    \/ AppendUser(r)
    \/ IncrWrite(r)
    \/ Dispatch(r)
    \/ Save(r)
    \/ Recycle(r)

NextLive ==
    \/ ChatApi("r1", "admin", "c3", <<"p">>, "nofile")
    \/ Turn("r1", {<<"a">>}, {[raised |-> FALSE, text |-> <<"T">>]})
    \/ Save("r1")
    \/ \E e \in ErrTexts : StreamRaise("r1", e)

SpecLive == Init /\ [][NextLive]_vars /\ WF_vars(HandlerStep("r1"))

\* SpecRace: two worker threads serving requests of the free-plan user, who
\* is one message below the limit of the day, interleaved at every step.
NextRace ==
    \/ \E r \in Reqs : ChatApi(r, "u1", "c1", <<"p">>, "nofile")
    \/ \E r \in Reqs : Turn(r, {<<"a">>}, {[raised |-> FALSE, text |-> <<"T">>]})
    \/ \E r \in Reqs : Save(r)
    \/ \E r \in Reqs : SaveExcept(r)

SpecRace == Init /\ [][NextRace]_vars

\* SpecOwner: one worker thread serving the requests of the free-plan user
\* on the user's own chat and on a chat of the admin account: chat turns,
\* renames, deletions and shares.
NextOwner ==
    \/ \E cid \in {"c1", "c3"} : ChatApi("r1", "u1", cid, <<"p">>, "nofile")
    \/ \E cid \in {"c1", "c3", NoChat} : \E raw \in RenameTitles :
         RenameChat("r1", "u1", cid, raw)
    \/ \E cid \in {"c1", "c3", NoChat} : DeleteChat("r1", "u1", cid)
    \/ \E cid \in {"c1", "c3", NoChat} : ShareChat("r1", "u1", cid)
    \/ Turn("r1", {<<"a">>}, {[raised |-> FALSE, text |-> <<"T">>]})
    \/ Save("r1")

SpecOwner == Init /\ [][NextOwner]_vars

\* SpecRate: two worker threads serving requests of two clients to
\* endpoints decorated with rate_limited() and rate_limited(max_attempts=20)
\* while the clock advances.
NextRate ==
    \/ \E r \in Reqs : \E ip \in IPs : \E m \in MaxAttempts : RateCheck(r, ip, m)
    \/ \E r \in Reqs : RateAppend(r)
    \/ \E r \in Reqs : RunHandler(r)
    \/ \E r \in Reqs : Recycle(r)
    \/ Tick

SpecRate == Init /\ [][NextRate]_vars

\* SpecLoad: the process starts on a data directory in any condition: the
\* canonical file and the backups are absent, documents written by
\* save_database, truncated, or files that did not come from save_database.
StoreA ==
    Serialize([users |-> [u \in {"admin"} |-> AdminUser(DayOf(0))],
               chats |-> [c \in {"c2"} |-> NewChatData("admin")]])
StoreB ==
    [StoreA EXCEPT !.chats["c2"].messages = <<UserMsg(<<"p">>), ModelMsg(<<"a">>)>>]

\* a document of an older version: the user record lacks the newer fields
StoreOld == [StoreA EXCEPT !.users = [u \in {"admin"} |-> [role |-> "admin"]]]

DiskFiles ==
    {DocFile(StoreA), DocFile(StoreB), DocFile(StoreOld), Partial, BadShape,
     BadUser(StoreB)}
BackupStamps == 0..(MaxNow - 1)

InitLoad ==
    /\ DB = DefaultDB
    /\ now = MaxNow
    /\ canon \in {Absent} \cup DiskFiles
    /\ \E S \in SUBSET BackupStamps : backups \in [S -> DiskFiles]
    /\ tmp = Absent
    /\ req = [r \in Reqs |-> IdleReq]
    /\ boot = "down"
    /\ turns = 0
    /\ faults = 0
    /\ crash = [inSave |-> FALSE, committed |-> StoreA, mem |-> DefaultDB]
    /\ since = [u \in Users |-> 0]
    /\ rate_limit_store = EmptyTable
    /\ calls = 0

NextLoad ==
    \/ Load
    \/ InitDefaults

SpecLoad == InitLoad /\ [][NextLoad]_vars

(***************************************************************************)
(* Properties.                                                             *)
(***************************************************************************)
Finished(r) == req[r].pc = "done"

\* the messages of the chat the request of thread r addresses
Messages(r) == DB.chats[req[r].chat].messages

\* the two entries a completed exchange of thread r adds: the user message
\* with the prompt, then the reply made of the fragments sent to the caller
Exchange(r) == <<UserMsg(req[r].prompt), ModelMsg(Concat(req[r].sent))>>

\* every user message is directly followed by a reply
Paired(msgs) ==
    \A i \in 1..Len(msgs) :
        msgs[i].sender = "user" => i < Len(msgs) /\ msgs[i + 1].sender = "model"

\* no reply is empty or made of white space only
NoBlankReply(chats) ==
    \A c \in DOMAIN chats : \A i \in 1..Len(chats[c].messages) :
        chats[c].messages[i].sender = "model"
            => Strip(chats[c].messages[i].content) # <<>>

Min(a, b) == IF a < b THEN a ELSE b

\* C1: after a chat turn whose upstream stream raised, the chat's messages
\* are what they were before the turn: no message of the failed exchange
\* remains.
C1_FailedTurnLeavesMessages ==
    \A r \in Reqs :
        Finished(r) /\ req[r].outcome = "stream_error" /\ ~req[r].overlap
            => Messages(r) = req[r].m0

\* C2: the canonical file never holds a chat in which a user turn has no
\* assistant reply, also when a request saves while another turn streams.
C2_StoreHoldsWholeExchanges ==
    canon.kind = "doc" =>
        \A c \in DOMAIN canon.data.chats : Paired(canon.data.chats[c].messages)

\* C3: a turn that completes successfully, with no other turn on its chat,
\* leaves the messages equal to the previous list followed by the user
\* message with the prompt and then the assistant message whose content is
\* the concatenation, in arrival order, of the fragments sent to the caller.
C3_SuccessAppendsExchange ==
    \A r \in Reqs :
        Finished(r) /\ req[r].outcome = "ok" /\ ~req[r].overlap
            => Messages(r) = req[r].m0 \o Exchange(r)

\* a second successful turn on a chat, with two different fragments
C3_Witness ==
    \E r \in Reqs :
        /\ Finished(r) /\ req[r].outcome = "ok"
        /\ req[r].m0 # <<>>
        /\ Len(req[r].sent) = 2 /\ req[r].sent[1] # req[r].sent[2]

\* C4: the daily counter grows by exactly one for an exchange that completes
\* successfully and not at all for a turn that fails mid-stream, is
\* cancelled, or is rejected before dispatch.
C4_CounterCountsCompletedTurns ==
    \A r \in Reqs :
        Finished(r) =>
            LET n == DB.users[req[r].user].daily_messages IN
            /\ req[r].outcome = "ok" => n = req[r].d0 + 1
            /\ req[r].outcome \in {"stream_error", "closed", "rejected"} => n = req[r].d0

\* the request of thread r has passed the quota test of chat_api
Admitted(r) ==
    \/ req[r].pc \in {"append", "incr", "dispatch", "stream"}
    \/ req[r].outcome \in {"ok", "stream_error", "closed", "setup_error"}
    \/ req[r].outcome = "rejected" /\ req[r].status = 403

\* C5: chat_api admits a turn exactly when, after the day-rollover reset, the
\* user's daily_messages is strictly below the message_limit of the plan;
\* otherwise it answers 429 and makes no model call.
C5_QuotaGate ==
    \A r \in Reqs :
        LET u == DB.users[req[r].user]
            limit == PlanDetails(u.plan).message_limit IN
        /\ req[r].status = 429 =>
              /\ req[r].d0 >= limit
              /\ u.last_message_date = req[r].day
              /\ Finished(r) /\ req[r].outcome = "rejected"
              /\ req[r].sent = <<>> /\ req[r].full = <<>>
        /\ Admitted(r) =>
              /\ req[r].d0 < limit
              /\ u.last_message_date = req[r].day

\* the 16th message of a free-plan user in one day is rejected
C5_Witness ==
    \E r \in Reqs :
        /\ req[r].status = 429
        /\ DB.users[req[r].user].plan = "free"
        /\ req[r].d0 = FreeLimit

\* C6: when the caller cancels a turn after k fragments were forwarded, the
\* pipeline still finalizes: the assistant message made of those k fragments
\* is appended to the chat and saved.
C6_CancelledTurnIsFinalized ==
    \A r \in Reqs :
        Finished(r) /\ req[r].cancelled /\ ~req[r].overlap =>
            /\ Messages(r) = req[r].m0 \o Exchange(r)
            /\ canon.kind = "doc"
            /\ canon.data.chats[req[r].chat].messages = Messages(r)

\* C7: an assistant message with empty or whitespace-only content is never
\* appended to a chat nor written to the store; a fallback text takes its
\* place.
C7_NoBlankAssistantMessage ==
    /\ NoBlankReply(DB.chats)
    /\ canon.kind = "doc" => NoBlankReply(canon.data.chats)

\* C8: once two concurrent chat completions have both finished, the
\* canonical file is one complete document that contains the exchanges of
\* both: neither save overwrites, reverts or corrupts the other's result.
C8_BothExchangesStored ==
    \A r1 \in Reqs : \A r2 \in Reqs \ {r1} :
        /\ Finished(r1) /\ req[r1].outcome = "ok"
        /\ Finished(r2) /\ req[r2].outcome = "ok"
        => /\ canon.kind = "doc"
           /\ \A r \in {r1, r2} :
                 canon.data.chats[req[r].chat].messages = Messages(r)

\* C9: two concurrent successful turns on two different chats of one user
\* leave the user's daily_messages exactly 2 higher than before the two.
C9_TwoTurnsAddTwo ==
    \A r1 \in Reqs : \A r2 \in Reqs \ {r1} :
        /\ turns = 2
        /\ Finished(r1) /\ req[r1].outcome = "ok"
        /\ Finished(r2) /\ req[r2].outcome = "ok"
        /\ req[r1].user = req[r2].user /\ req[r1].chat # req[r2].chat
        /\ ~req[r1].didReset /\ ~req[r2].didReset
        => DB.users[req[r1].user].daily_messages = Min(req[r1].d0, req[r2].d0) + 2

\* C10: when the process stops at any step of save_database, the following
\* load_database yields the state committed before the save or the new
\* state, never an empty or corrupted store.
C10_LoadAfterCrashRecovers ==
    boot = "loaded" /\ crash.inSave
        => DB = Parse(crash.committed) \/ DB = crash.mem

\* C11: when the write of the new state fails inside save_database (the dump
\* into the temp file or the replace raises), then at the return of
\* save_database the canonical file exists and holds the complete document
\* that was committed before the call.
C11_FailedSaveKeepsCanonical ==
    \A r \in Reqs :
        req[r].saved = "failed" => canon = DocFile(crash.committed)

\* a save that failed after the canonical file had been rotated away, in a
\* process whose memory had moved on from the committed document
C11_Witness ==
    \E r \in Reqs :
        /\ req[r].saved = "failed"
        /\ backups = EmptyTable
        /\ Serialize(DB) # crash.committed
        /\ tmp = Absent

\* the files of the data directory that load_database can load completely
Loadable(f) == f.kind = "doc"

\* the stamps of the loadable backups
ValidStamps == {s \in DOMAIN backups : Loadable(backups[s])}

\* C12: when the canonical file exists and is not JSON, load_database
\* leaves the state of the most recent backup that is itself valid, skipping
\* newer backups that do not load, and the empty store only when no backup
\* is valid.  (Stated for backups that are documents or not JSON at all.)
C12_CorruptFallsBackToValidBackup ==
    [][ (/\ boot = "down" /\ boot' = "loaded"
         /\ canon.kind \in {"partial", "corrupt"}
         /\ \A s \in DOMAIN backups : backups[s].kind \in {"doc", "partial", "corrupt"})
           => DB' = IF ValidStamps = {} THEN DefaultDB
                    ELSE Parse(backups[CHOOSE s \in ValidStamps :
                                          \A t \in ValidStamps : t <= s].data) ]_vars

\* C13: load_database never raises, whatever the canonical file and the
\* backups hold, and the store it leaves is entirely the content of one
\* valid file or entirely the empty default.
C13_LoadReturnsWholeOrEmpty ==
    [][ (boot = "down" /\ boot' # "down")
           => /\ boot' = "loaded"
              /\ DB' \in {DefaultDB}
                     \cup {Parse(f.data) : f \in {g \in {canon} \cup
                              {backups[s] : s \in DOMAIN backups} : Loadable(g)}} ]_vars

\* C14: save_database followed by load_database reproduces the state: when
\* the process stops with everything in memory saved and starts again, the
\* loaded store has the same users with the same role, plan, daily_messages
\* and last_message_date, the same chats and the same messages in order.
C14_SaveThenLoadRoundTrips ==
    (boot = "loaded" /\ ~crash.inSave /\ Serialize(crash.mem) = crash.committed)
        => DB = crash.mem

\* a reload of a store in which a chat holds an exchange and a user has
\* counted a message of the day
C14_Witness ==
    /\ boot = "loaded" /\ ~crash.inSave
    /\ Serialize(crash.mem) = crash.committed
    /\ \E c \in DOMAIN DB.chats : Len(DB.chats[c].messages) = 2
    /\ DB.users["u1"].daily_messages = InitDaily + 1
    /\ DB.users["admin"].role = "admin"

\* no request is between its first step and its end
Quiescent == \A r \in Reqs : req[r].pc \in {"idle", "done"}

\* C15: for any interleaving of turns, also of two turns on the same chat,
\* every user message in a chat is immediately followed by its assistant
\* reply once the turns have ended.
C15_PairsStayAdjacent ==
    Quiescent => \A c \in DOMAIN DB.chats : Paired(DB.chats[c].messages)

\* what the caller can recognise as an error event: the JSON of an error
IsErrorEvent(x) == \E e \in ErrTexts : x = ErrorEvent(e)

\* s without its last element
Front(s) == SubSeq(s, 1, Len(s) - 1)

\* C16: when the upstream stream raises after k fragments were forwarded,
\* the caller receives those k fragments in order followed by exactly one
\* error event, the last element of the stream, and the caller can tell the
\* error event from a text fragment: a stream ends with what reads as an
\* error event exactly when the upstream raised, and nothing before the
\* last element reads as one.
C16_ErrorEventEndsFailedStream ==
    \A r \in Reqs :
        Finished(r) /\ req[r].outcome \in {"ok", "stream_error"} =>
            LET sent == req[r].sent IN
            /\ req[r].outcome = "stream_error" =>
                  /\ sent # <<>>
                  /\ IsErrorEvent(sent[Len(sent)])
                  /\ Concat(Front(sent)) = req[r].full
                  /\ \A i \in 1..(Len(sent) - 1) : ~IsErrorEvent(sent[i])
            /\ req[r].outcome = "ok" =>
                  \A i \in 1..Len(sent) : ~IsErrorEvent(sent[i])

\* the step is an admission check of user u: a request of u gets past the
\* ownership test of chat_api and calls check_and_reset_daily_limit
AdmissionCheck(u) ==
    \E r \in Reqs :
        /\ req[r].pc = "idle" /\ req'[r].pc # "idle"
        /\ req'[r].user = u /\ req'[r].chat # NoChat

\* C17: an admission check made when the stored last_message_date differs
\* from the server date sets daily_messages to 0 and records the date; a
\* check on the recorded day leaves the user as it is; and no other step
\* lowers the counter or changes the date: one reset per calendar day.
C17_ResetOncePerDay ==
    [][ \A u \in DOMAIN DB.users :
          LET old == DB.users[u]
              new == DB'.users[u]
              stale == old.last_message_date # DayOf(now) IN
          /\ AdmissionCheck(u) =>
                new = IF stale
                      THEN [old EXCEPT !.last_message_date = DayOf(now),
                                       !.daily_messages = 0]
                      ELSE old
          /\ (\/ new.last_message_date # old.last_message_date
              \/ new.daily_messages < old.daily_messages)
                => AdmissionCheck(u) /\ stale ]_vars

\* a second check on a day whose first check reset the counter: the message
\* counted since then is still counted
C17_Witness ==
    \E r \in Reqs :
        /\ req[r].pc = "quota" /\ ~req[r].didReset
        /\ req[r].day = DayOf(0) + 1
        /\ DB.users[req[r].user].last_message_date = req[r].day
        /\ DB.users[req[r].user].daily_messages = 1

\* C19: a chat_api call that fails before the model call begins (missing
\* chat id, foreign chat, quota, upload not permitted, invalid image, empty
\* input, or an error while the model session is set up) answers with an
\* error status, streams nothing, and leaves the chat's messages and the
\* user's daily_messages as they were after the day-rollover reset; an
\* upload the plan does not permit is refused before the image is decoded.
C19_PreDispatchFailureChangesNothing ==
    \A r \in Reqs :
        Finished(r) /\ req[r].outcome \in {"rejected", "setup_error"} =>
            LET u == DB.users[req[r].user] IN
            /\ req[r].status >= 400
            /\ req[r].sent = <<>>
            /\ u.daily_messages = req[r].d0
            /\ req[r].chat # NoChat =>
                  /\ Messages(r) = req[r].m0
                  /\ (req[r].file # "nofile" /\ ~PlanDetails(u.plan).can_upload)
                        => req[r].status \in {429, 403}

\* the positions of msgs that are among the last HistoryWindow and hold
\* non-empty content
KeptPositions(msgs) ==
    {i \in 1..Len(msgs) :
        i > Len(msgs) - HistoryWindow /\ msgs[i].content # <<>>}

\* C20: the history built for a turn is exactly the subsequence of the
\* chat's last 10 stored messages whose content is non-empty, in their
\* original order; it has at most 10 entries, and building it leaves the
\* chat's messages as they were.
C20_HistoryIsLastTenNonEmpty ==
    \A r \in Reqs :
        req[r].pc \in {"append", "incr", "dispatch"} /\ ~req[r].overlap =>
            LET msgs == req[r].m0
                kept == KeptPositions(msgs)
                h == req[r].history IN
            /\ Len(h) = Cardinality(kept)
            /\ Len(h) <= HistoryWindow
            /\ \A i \in kept :
                  LET entry == h[Cardinality({j \in kept : j <= i})] IN
                  /\ entry.text = msgs[i].content
                  /\ entry.role = "user" <=> msgs[i].sender = "user"
            /\ req[r].pc = "append" => Messages(r) = msgs

\* a history built from a chat longer than the window, with an empty
\* message inside the window and one before it
C20_Witness ==
    \E r \in Reqs :
        /\ req[r].pc = "append"
        /\ Len(req[r].m0) > HistoryWindow
        /\ req[r].m0[1].content = <<>>
        /\ Len(req[r].history) = HistoryWindow - 1

\* the requests of user u that have counted their message and not yet
\* completed their exchange
Counting(u) == {r \in Reqs : req[r].user = u /\ req[r].pc \in {"dispatch", "stream"}}

\* C18: after N consecutive successful turns of a user within one day,
\* starting from a freshly reset counter, daily_messages equals N, for every
\* N up to the plan's limit; right after the day-rollover reset it is 0.
C18_CounterEqualsCompletedTurns ==
    /\ \A u \in DOMAIN DB.users :
          Counting(u) = {} =>
              /\ DB.users[u].daily_messages = since[u]
              /\ since[u] <= PlanDetails(DB.users[u].plan).message_limit
    /\ \A r \in Reqs :
          (req[r].didReset /\ req[r].pc \in SavePcs /\ req[r].ret = "quota")
              => DB.users[req[r].user].daily_messages = 0

\* two successful turns on the day after the one the behaviour began on
C18_Witness ==
    /\ Quiescent
    /\ since["u1"] = 2
    /\ DB.users["u1"].daily_messages = 2
    /\ DB.users["u1"].last_message_date = DayOf(0) + 1

\* the title of the chat the request of thread r addresses
Title(r) == DB.chats[req[r].chat].title

\* C21: when a chat with zero prior messages completes its first exchange,
\* its title is a non-empty string derived from that exchange: the
\* summarizer's result or the truncated-prompt fallback; also for an empty
\* prompt (image only) and for a summarizer that returns empty text.
C21_FirstExchangeTitlesChat ==
    \A r \in Reqs :
        (Finished(r) /\ req[r].outcome = "ok" /\ req[r].m0 = <<>> /\ ~req[r].overlap)
            => /\ Title(r) # <<>>
               /\ \/ Title(r) = Take(req[r].prompt, TitlePrefix) \o Ellipsis
                  \/ \E t \in TitleTexts : Title(r) = RemoveChar(Strip(t), "\"")

\* C22: when title generation raises during the first exchange of a chat,
\* the turn still completes as a success: both messages stay appended,
\* save_database is called and stores them, no error event is sent, and the
\* title is the prompt cut to its first 40 characters, marked with an
\* ellipsis.
C22_TitleFailureKeepsTurn ==
    \A r \in Reqs :
        Finished(r) /\ req[r].tgen = "raised" =>
            /\ req[r].outcome = "ok" /\ req[r].status = 200
            /\ Messages(r) = req[r].m0 \o Exchange(r)
            /\ req[r].saved = "ok"
            /\ canon = DocFile(Serialize(DB))
            /\ \A i \in 1..Len(req[r].sent) : ~IsErrorEvent(req[r].sent[i])
            /\ Len(Title(r)) <= TitlePrefix + Len(Ellipsis)
            /\ Title(r) = SubSeq(req[r].prompt, 1, Len(Title(r)) - Len(Ellipsis)) \o Ellipsis
            /\ \/ Len(Title(r)) = TitlePrefix + Len(Ellipsis)
               \/ Len(Title(r)) = Len(req[r].prompt) + Len(Ellipsis)

\* a first exchange with a prompt longer than the cut whose title
\* generation raised
C22_Witness ==
    \E r \in Reqs :
        /\ Finished(r) /\ req[r].tgen = "raised"
        /\ req[r].m0 = <<>>
        /\ Len(req[r].prompt) > TitlePrefix

\* C23: after every step of save_database at most 5 backups exist, and a
\* backup made by an earlier save stays as it is unless the retention rule
\* removes it (it is older than the 5 that are kept) or it is restored as
\* the canonical file.  (Stated for saves that all succeed in a process that
\* keeps running.)
C23_BackupsLostOnlyByRetention ==
    [][ faults' = 0 =>
        /\ Cardinality(DOMAIN backups') <= KeepBackups
        /\ \A s \in DOMAIN backups :
              \/ s \in DOMAIN backups' /\ backups'[s] = backups[s]
              \/ s \notin DOMAIN backups' /\ canon' = backups[s]
              \/ /\ s \notin DOMAIN backups'
                 /\ Cardinality(DOMAIN backups') = KeepBackups
                 /\ \A t \in DOMAIN backups' : t > s ]_vars

\* text a occurs in text b
Infix(a, b) ==
    \E i \in 0..(Len(b) - Len(a)) : SubSeq(b, i + 1, i + Len(a)) = a

\* C24: no event sent to the client carries the internal cause of a failure
\* verbatim: the error event of a failed stream does not contain the text
\* of the upstream exception.
C24_ErrorEventHidesCause ==
    \A r \in Reqs :
        Finished(r) /\ req[r].outcome = "stream_error" =>
            \A i \in 1..Len(req[r].sent) : ~Infix(req[r].cause, req[r].sent[i])

\* C25: when the save at the end of a chat turn fails, the client receives
\* an error signal for that turn (an error status or an error event); the
\* turn is not reported as a normal completion.
C25_FailedSaveIsReported ==
    \A r \in Reqs :
        (Finished(r) /\ req[r].outcome = "ok" /\ req[r].saved = "failed") =>
            \/ req[r].status >= 500
            \/ \E i \in 1..Len(req[r].sent) : IsErrorEvent(req[r].sent[i])

\* C26: every dispatched turn eventually reaches a terminal state, also when
\* the upstream stops producing fragments: the response of a request that
\* began to stream eventually ends.
C26_DispatchedTurnTerminates ==
    (req["r1"].pc = "stream") ~> (req["r1"].pc = "done")

\* C27: the history passed to the model for a turn alternates between user
\* and assistant entries: no two consecutive entries have the same role,
\* whatever turns (successful, failed, cancelled, with an empty reply) the
\* chat has seen.
C27_HistoryAlternates ==
    \A r \in Reqs :
        req[r].pc \in {"append", "incr", "dispatch"} =>
            \A i \in 1..(Len(req[r].history) - 1) :
                req[r].history[i].role # req[r].history[i + 1].role

\* C28: daily_messages of a user never exceeds the message_limit of the
\* user's plan, also when several requests of the user pass the quota test
\* before any of them increments the counter.
C28_CounterWithinLimit ==
    \A u \in DOMAIN DB.users :
        DB.users[u].daily_messages <= PlanDetails(DB.users[u].plan).message_limit

\* chat cid exists and belongs to another user than uid
Foreign(uid, cid) == cid \in DOMAIN DB.chats /\ DB.chats[cid].user_id # uid

\* C29: a chat-turn, rename, delete or share request on a chat whose
\* user_id differs from the requester's id is answered with 404 and leaves
\* every chat and every user, in memory and in the store, unchanged.
C29_ForeignChatUntouched ==
    [][ \A r \in Reqs :
          (/\ req[r].pc = "idle" /\ req'[r].pc # "idle"
           /\ Foreign(req'[r].user, req'[r].target))
             => /\ req'[r].pc = "done" /\ req'[r].status = 404
                /\ req'[r].sent = <<>>
                /\ DB' = DB
                /\ canon' = canon ]_vars

\* the request of thread r is refused before its handler looks the chat up:
\* rename_chat answers a request without a title with 400
RefusedEarlier(rec) == rec.op = "rename" /\ rec.title = <<>>

\* C29 (amended): a chat-turn, rename, delete or share request on a chat
\* whose user_id differs from the requester's id leaves every chat and every
\* user, in memory and in the store, unchanged, and is answered with 404,
\* except a rename request without a title, which is answered with 400.
C29_ForeignChatRefused ==
    [][ \A r \in Reqs :
          (/\ req[r].pc = "idle" /\ req'[r].pc # "idle"
           /\ Foreign(req'[r].user, req'[r].target))
             => /\ req'[r].pc = "done"
                /\ req'[r].status = IF RefusedEarlier(req'[r]) THEN 400 ELSE 404
                /\ req'[r].sent = <<>>
                /\ DB' = DB
                /\ canon' = canon ]_vars

\* a refused request on the admin's chat by a user who has renamed and
\* shared the user's own chat
C29_Witness ==
    \E r \in Reqs :
        /\ Finished(r) /\ req[r].status = 404
        /\ req[r].user = "u1" /\ req[r].target = "c3"
        /\ "c1" \in DOMAIN DB.chats
        /\ DB.chats["c1"].title = <<"R">>
        /\ DB.chats["c1"].is_public
        /\ DB.chats["c3"] = NewChatData("admin")

\* the requests of client ip recorded in store st in the window that ends now
InWindow(st, ip) == Len(Recent(SetDefault(st, ip, <<>>), Seconds(now)))

\* C30: an endpoint decorated with rate_limited(max_attempts=m) runs its
\* handler for a client only if fewer than m requests of that client were
\* admitted, on all rate-limited endpoints, in the preceding 60 seconds: when
\* a request is recorded and handed to its handler, the window holds at most
\* m admissions, this one included.  A rejected request is answered with 429
\* and is not recorded.
C30_HandlerRunsBelowLimit ==
    [][ \A r \in Reqs :
          /\ (req[r].pc = "rl_append" /\ req'[r].pc = "handler")
                => InWindow(rate_limit_store', req[r].ip) <= req[r].limit
          /\ (req[r].pc = "idle" /\ req'[r].outcome = "rate_limited")
                => /\ req'[r].pc = "done" /\ req'[r].status = 429
                   /\ InWindow(rate_limit_store', req'[r].ip)
                        = InWindow(rate_limit_store, req'[r].ip) ]_vars

====
